---- MODULE Spec2Model ----
(***************************************************************************)
(* The Express/MySQL backend of the user-management application           *)
(* (backend/server.js): the users table, the startup sequence with its    *)
(* un-awaited admin seeding, the register and login handlers, the bearer  *)
(* token middleware and the four protected /api/users routes.             *)
(*                                                                         *)
(* Every await of a handler is an interleaving point: a handler that      *)
(* issues one SQL statement is one action, register (existence check,     *)
(* then insert under handleDbError) and seeding (check, then insert) are  *)
(* several.  Each handler is an operator XResult giving the values it     *)
(* leaves in the variables it may write, and an action X applying it.     *)
(*                                                                         *)
(* Spec is the whole server with one register request in flight at a      *)
(* time, SpecRace has register requests in flight on two connections,     *)
(* SpecClock lets time pass, SpecUpdate and SpecInput call the routes     *)
(* with partial and with ill-formed bodies.  The store stays reachable in *)
(* all of these.  SpecRetry is handleDbError on its own with operations   *)
(* that fail, SpecFault the protected routes on a store that fails.       *)
(***************************************************************************)
EXTENDS Integers, Sequences, FiniteSets, TLC

VARIABLES
    users,      \* the rows of table users
    nextId,     \* the table's AUTO_INCREMENT counter
    server,     \* startServer: "init", "listening" or "exited"
    seed,       \* createAdminAccount: [pc, i]
    req,        \* per connection: the register request in flight or answered last
    held,       \* the token the client keeps: that of its last successful login
    clock,      \* wall-clock time, in hours
    resp,       \* the response sent last
    call        \* the store operation that ran under handleDbError last, or
                \* failed last when called directly: [pc, op, arg, retries, i,
                \* invoked, slept, outcomes, error]

vars == <<users, nextId, server, seed, req, held, clock, resp, call>>

----
\* Bounds of the model.

\* ids the AUTO_INCREMENT counter may hand out
MaxId == 2
\* the hour after which the clock stops
MaxClock == 36

\* Program constants.

\* handleDbError(operation, retries = 2)
Retries == 2
\* jwt.sign(..., { expiresIn: '24h' })
ExpiresIn == 24

\* the connections a client may have a request in flight on
Slots == {"c1", "c2"}

----
\* JavaScript and SQL values.

\* a property the JSON body does not carry
Undefined == "undefined"

\* null, for a value that is no string
Null == [null |-> TRUE]

\* !v for a string-or-undefined v
\* a check for undefined only
FalsyMut(v) == v = Undefined

\* no check at all
FalsyNone(v) == FALSE

\* !v on a string or undefined
Falsy(v) == v = Undefined \/ v = ""

\* a || d
OrElse(v, d) == IF Falsy(v) THEN d ELSE v

\* a === b on strings
StrictEq(a, b) == a = b

\* The columns are VARCHAR with the server's default collation, which is
\* case-insensitive: comparisons and the UNIQUE indexes work on the folded text.
Fold(s) ==
    CASE s = "Bob" -> "bob"
      [] s = "BOB" -> "bob"
      [] OTHER -> s

SqlEq(a, b) == Fold(a) = Fold(b)

\* bcrypt.hash(password, 10) and bcrypt.compare(password, hash)
Hash(password) == [bcrypt |-> password]

Compare(password, hash) == hash = Hash(password)

\* a result set in descending order of id
RECURSIVE ByIdMut(_)
ByIdMut(rows) ==
    IF rows = {} THEN <<>>
    ELSE LET last == CHOOSE r \in rows : \A q \in rows : r.id >= q.id
         IN  <<last>> \o ByIdMut(rows \ {last})

\* A result set in the order of the clustered (primary key) index.
RECURSIVE ById(_)
ById(rows) ==
    IF rows = {} THEN <<>>
    ELSE LET first == CHOOSE r \in rows : \A q \in rows : r.id <= q.id
         IN  <<first>> \o ById(rows \ {first})

\* SELECT * FROM users WHERE username = ? OR email = ?
SelectByUsernameOrEmail(rows, username, email) ==
    ById({row \in rows : SqlEq(row.username, username) \/ SqlEq(row.email, email)})

\* username VARCHAR(255) UNIQUE, email VARCHAR(255) UNIQUE: the rows other than
\* `self` that forbid a row with this username and email
UniqueViolationMut(rows, self, username, email) ==
    \E row \in rows : row.id # self /\ SqlEq(row.username, username)

UniqueViolation(rows, self, username, email) ==
    \E row \in rows :
        /\ row.id # self
        /\ SqlEq(row.username, username) \/ SqlEq(row.email, email)

\* INSERT INTO users (username, email, password, full_name, role): the new row
NewRow(id, username, email, password, full_name, role, now) ==
    [id |-> id, username |-> username, email |-> email, password |-> password,
     full_name |-> full_name, role |-> role, created_at |-> now]

----
\* Requests and responses.

NoBody ==
    [username |-> Undefined, email |-> Undefined, password |-> Undefined,
     full_name |-> Undefined, role |-> Undefined]

\* a connection no register request has been made on
Idle == [pc |-> "idle", i |-> 0, body |-> NoBody, status |-> 0, seen |-> 0]

\* A connection whose register request was answered with `status`.  `seen` is
\* the AUTO_INCREMENT counter at the time of the request's existence check:
\* the rows with a smaller id are the ones that check could see.
Done(body, status, seen) ==
    [pc |-> "done", i |-> 0, body |-> body, status |-> status, seen |-> seen]

\* the bodies POST /api/register is called with
RegisterBodies ==
    { [username |-> "bob", email |-> "bob@x.com", password |-> "pw1",
       full_name |-> Undefined, role |-> Undefined],
      [username |-> "Bob", email |-> "admin@admin.com", password |-> "pw2",
       full_name |-> "Amy", role |-> Undefined],
      [username |-> "bob@x.com", email |-> "amy@x.com", password |-> "pw2",
       full_name |-> Undefined, role |-> "admin"],
      [username |-> "", email |-> "amy@x.com", password |-> "pw1",
       full_name |-> Undefined, role |-> Undefined],
      [username |-> "amy", email |-> "amy@x.com", password |-> Undefined,
       full_name |-> "Amy", role |-> Undefined] }

NoResp == [op |-> "none", status |-> 0, body |-> [none |-> TRUE]]

\* res.status(status).json({ error })
ErrorResp(op, status, error) == [op |-> op, status |-> status, body |-> [error |-> error]]

\* res.json({ message })
MessageResp(op, message) == [op |-> op, status |-> 200, body |-> [message |-> message]]

----
\* handleDbError(operation, retries = 2).

\* the errors an invocation of operation may throw
Errors == {"ECONNRESET", "PROTOCOL_CONNECTION_LOST", "ER_DUP_ENTRY"}

\* no call of handleDbError has been made
NoCall ==
    [pc |-> "idle", op |-> "none", arg |-> Null, retries |-> 0, i |-> 0,
     invoked |-> 0, slept |-> <<>>, outcomes |-> <<>>, error |-> "none"]

\* the call on entry: i = 0, operation not yet invoked
HandleDbError(op, arg, retries) ==
    [pc |-> "invoke", op |-> op, arg |-> arg, retries |-> retries, i |-> 0,
     invoked |-> 0, slept |-> <<>>, outcomes |-> <<>>, error |-> "none"]

\* the loop's test
LoopTest(i, retries) == i <= retries

\* a wait of the same length after every failure
DelayMut(i) == 1000

\* the milliseconds of the wait after the failure of attempt i (from 0)
Delay(i) == 1000 * (i + 1)

\* operation() resolves: its value is returned
Resolved(c) ==
    [c EXCEPT !.pc = "returned", !.invoked = @ + 1, !.outcomes = Append(@, "ok")]

\* operation() rejects with error: rethrown on the final attempt, else the
\* wait is started
Rejected(c, error) ==
    [c EXCEPT !.pc = IF c.i = c.retries THEN "thrown" ELSE "sleep",
              !.invoked = @ + 1, !.outcomes = Append(@, error),
              !.error = IF c.i = c.retries THEN error ELSE @]

\* the wait is over: i++, and the loop's test
Waited(c) ==
    [c EXCEPT !.pc = IF LoopTest(c.i + 1, c.retries) THEN "invoke" ELSE "returned",
              !.i = @ + 1, !.slept = Append(@, Delay(c.i))]

\* the call is over or was never made
Over(c) == c.pc \in {"idle", "returned", "thrown"}

\* the timer of the wait fires
Backoff ==
    /\ call.pc = "sleep"
    /\ call' = Waited(call)
    /\ UNCHANGED <<users, nextId, server, seed, req, held, clock, resp>>

----
\* The state after `node server.js` on a fresh database, before startServer runs.
Init ==
    /\ users = {}
    /\ nextId = 1
    /\ server = "init"
    /\ seed = [pc |-> "idle", i |-> 0]
    /\ req = [r \in Slots |-> Idle]
    /\ held = Null
    /\ clock = 0
    /\ resp = NoResp
    /\ call = NoCall

----
\* startServer / initializeDatabase.

\* initializeDatabase resolves: the table exists, createAdminAccount has been
\* called without being awaited, and app.listen follows.
InitializeDatabase ==
    /\ server = "init"
    /\ server' = "listening"
    /\ seed' = [pc |-> "check", i |-> 0]
    /\ UNCHANGED <<users, nextId, req, held, clock, resp, call>>

\* a catch block that logs the error and lets startServer go on to listen
InitializeDatabaseFailsMut ==
    /\ server = "init"
    /\ server' = "listening"
    /\ UNCHANGED <<users, nextId, seed, req, held, clock, resp, call>>

\* initializeDatabase catches an error: process.exit(1).
InitializeDatabaseFails ==
    /\ server = "init"
    /\ server' = "exited"
    /\ UNCHANGED <<users, nextId, seed, req, held, clock, resp, call>>

----
\* createAdminAccount.

AdminRow(id, now) ==
    NewRow(id, "admin", "admin@admin.com", Hash("admin123"), "Administrator", "admin", now)

\* the SELECT for an existing admin, then the branch on existingAdmin.length
SeedCheck ==
    /\ server = "listening"
    /\ seed.pc = "check"
    /\ LET existingAdmin == SelectByUsernameOrEmail(users, "admin", "admin@admin.com")
       IN  seed' = IF Len(existingAdmin) = 0
                   THEN [pc |-> "insert", i |-> 0]
                   ELSE [pc |-> "done", i |-> 0]
    /\ UNCHANGED <<users, nextId, server, req, held, clock, resp, call>>

\* one attempt of the INSERT under handleDbError; the last error is caught and logged
SeedInsert ==
    /\ server = "listening"
    /\ seed.pc = "insert"
    /\ IF UniqueViolation(users, 0, "admin", "admin@admin.com")
       THEN /\ seed' = IF seed.i = Retries
                       THEN [pc |-> "failed", i |-> 0]
                       ELSE [pc |-> "insert", i |-> seed.i + 1]
            /\ UNCHANGED <<users, nextId, call>>
       ELSE /\ nextId <= MaxId
            /\ users' = users \cup {AdminRow(nextId, clock)}
            /\ nextId' = nextId + 1
            /\ seed' = [pc |-> "done", i |-> 0]
    /\ UNCHANGED <<server, req, held, clock, resp, call>>

----
\* POST /api/register.

\* the user object of the 201 response
RegisterUserMut(id, body) ==
    [id |-> 0, username |-> body.username, email |-> body.email,
     full_name |-> OrElse(body.full_name, ""), role |-> OrElse(body.role, "user")]

RegisterUser(id, body) ==
    [id |-> id, username |-> body.username, email |-> body.email,
     full_name |-> OrElse(body.full_name, ""), role |-> OrElse(body.role, "user")]

\* the catch block: ER_DUP_ENTRY is answered 400, anything else 500
DuplicateEntryRespMut == ErrorResp("register", 500, "Server error - Duplicate entry")

DuplicateEntryResp == ErrorResp("register", 400, "Username or email already exists")

\* Validation of the required fields, then the existence check and the branch on
\* its first row; a request that passes goes on to hash and insert.
RegisterStartResult(r, body) ==
    LET existingUsers == SelectByUsernameOrEmail(users, body.username, body.email)
        answer(error) ==
            [req |-> [req EXCEPT ![r] = Done(body, 400, nextId)],
             resp |-> ErrorResp("register", 400, error)]
    IN  IF Falsy(body.username) \/ Falsy(body.email) \/ Falsy(body.password)
        THEN answer("Username, email, and password are required")
        ELSE IF Len(existingUsers) > 0 /\ StrictEq(existingUsers[1].email, body.email)
        THEN answer("Email already registered")
        ELSE IF Len(existingUsers) > 0 /\ StrictEq(existingUsers[1].username, body.username)
        THEN answer("Username already taken")
        ELSE [req |-> [req EXCEPT ![r] = [pc |-> "insert", i |-> 0, body |-> body,
                                          status |-> 0, seen |-> nextId]],
              resp |-> resp]

RegisterStart(r, body) ==
    /\ server = "listening"
    /\ req[r].pc \in {"idle", "done"}
    /\ req' = RegisterStartResult(r, body).req
    /\ resp' = RegisterStartResult(r, body).resp
    /\ UNCHANGED <<users, nextId, server, seed, held, clock, call>>

\* One attempt of the INSERT under handleDbError.  An error is retried until
\* i = retries; the last one reaches the handler's catch block.
RegisterInsertResult(r) ==
    LET body == req[r].body
    IN  IF UniqueViolation(users, 0, body.username, body.email)
        THEN IF req[r].i = Retries
             THEN [users |-> users, nextId |-> nextId,
                   req |-> [req EXCEPT ![r] =
                               Done(body, DuplicateEntryResp.status, req[r].seen)],
                   resp |-> DuplicateEntryResp]
             ELSE [users |-> users, nextId |-> nextId,
                   req |-> [req EXCEPT ![r].i = @ + 1],
                   resp |-> resp]
        ELSE [users |-> users \cup
                  {NewRow(nextId, body.username, body.email, Hash(body.password),
                          OrElse(body.full_name, ""), OrElse(body.role, "user"), clock)},
              nextId |-> nextId + 1,
              req |-> [req EXCEPT ![r] = Done(body, 201, req[r].seen)],
              resp |-> [op |-> "register", status |-> 201,
                        body |-> [message |-> "User created successfully",
                                  user |-> RegisterUser(nextId, body)]]]

RegisterInsert(r) ==
    /\ server = "listening"
    /\ req[r].pc = "insert"
    /\ RegisterInsertResult(r).nextId <= MaxId + 1
    /\ users' = RegisterInsertResult(r).users
    /\ nextId' = RegisterInsertResult(r).nextId
    /\ req' = RegisterInsertResult(r).req
    /\ resp' = RegisterInsertResult(r).resp
    /\ UNCHANGED <<server, seed, held, clock, call>>

----
\* Tokens and the Authorization header.

\* the secret jwt.sign and jwt.verify share
JwtSecret == "JWT_SECRET"

\* jwt.sign({ userId, username, role }, JWT_SECRET, { expiresIn: '24h' })
JwtSign(user, now) ==
    [userId |-> user.id, username |-> user.username, role |-> OrElse(user.role, "user"),
     iat |-> now, exp |-> now + ExpiresIn, sig |-> JwtSecret]

\* a word of a header that is no token of this server
Word(text) == [text |-> text]

\* a well-formed token signed with another key
Forged ==
    [userId |-> 1, username |-> "admin", role |-> "admin",
     iat |-> 0, exp |-> MaxClock + ExpiresIn, sig |-> "another key"]

\* jwt.verify(token, JWT_SECRET, callback): err is set unless the token parses,
\* carries this server's signature and has not reached exp
JwtVerifyMut(token, now) ==
    /\ "sig" \in DOMAIN token
    /\ token.sig = JwtSecret
    /\ now <= token.exp

JwtVerify(token, now) ==
    /\ "sig" \in DOMAIN token
    /\ token.sig = JwtSecret
    /\ now < token.exp

\* req.headers['authorization']: absent, or the text as its space-separated words
\* (<<>> for the empty text)
NoHeader == [present |-> FALSE, words |-> <<>>]

Header(words) == [present |-> TRUE, words |-> words]

\* the headers a client may send, given the token it holds
Headers ==
    {NoHeader, Header(<<>>), Header(<<Word("Bearer")>>),
     Header(<<Word("Bearer"), Word("invalid-token")>>),
     Header(<<Word("Bearer"), Forged>>)}
    \cup (IF held = Null THEN {}
          ELSE {Header(<<held>>), Header(<<Word("Bearer"), held>>)})

\* authHeader && authHeader.split(' ')[1]
HeaderToken(authHeader) ==
    IF ~authHeader.present THEN Null
    ELSE IF authHeader.words = <<>> THEN Word("")
    ELSE IF Len(authHeader.words) >= 2 THEN authHeader.words[2]
    ELSE Null

\* authenticateToken: 0 when next() is called, else the status of res.sendStatus
AuthenticateTokenMut(authHeader, now) ==
    IF HeaderToken(authHeader) = Null THEN 401
    ELSE IF ~("sig" \in DOMAIN HeaderToken(authHeader)) THEN 403
    ELSE 0

\* a check that also looks the token's user up in the store
AuthenticateTokenStored(authHeader, now) ==
    IF HeaderToken(authHeader) = Null THEN 401
    ELSE IF ~JwtVerify(HeaderToken(authHeader), now) THEN 403
    ELSE IF ~\E row \in users :
                /\ row.id = HeaderToken(authHeader).userId
                /\ row.username = HeaderToken(authHeader).username
    THEN 403
    ELSE 0

AuthenticateToken(authHeader, now) ==
    IF HeaderToken(authHeader) = Null THEN 401
    ELSE IF ~JwtVerify(HeaderToken(authHeader), now) THEN 403
    ELSE 0

\* res.sendStatus(status)
StatusResp(op, status) ==
    [op |-> op, status |-> status,
     body |-> [text |-> IF status = 401 THEN "Unauthorized" ELSE "Forbidden"]]

----
\* POST /api/login.

LoginNames == {"BOB", "bob@x.com", "admin@admin.com", "nobody", Undefined}

Passwords == {"pw1", "admin123", Undefined}

LoginBodies == [username : LoginNames, password : Passwords]

\* the user object of the 200 response
LoginUser(user) ==
    [id |-> user.id, username |-> user.username, email |-> user.email,
     full_name |-> user.full_name, role |-> OrElse(user.role, "user")]

\* the 401 of an identity no row matches
UnknownUserRespMut == ErrorResp("login", 401, "User not found")

UnknownUserResp == ErrorResp("login", 401, "Invalid credentials")

\* the 401 of a password that does not verify
WrongPasswordResp == ErrorResp("login", 401, "Invalid credentials")

LoginResult(body) ==
    LET found == SelectByUsernameOrEmail(users, body.username, body.username)
    IN  IF Falsy(body.username) \/ Falsy(body.password)
        THEN [held |-> held,
              resp |-> ErrorResp("login", 400, "Username and password are required")]
        ELSE IF Len(found) = 0
        THEN [held |-> held, resp |-> UnknownUserResp]
        ELSE IF ~Compare(body.password, found[1].password)
        THEN [held |-> held, resp |-> WrongPasswordResp]
        ELSE [held |-> JwtSign(found[1], clock),
              resp |-> [op |-> "login", status |-> 200,
                        body |-> [message |-> "Login successful",
                                  token |-> JwtSign(found[1], clock),
                                  user |-> LoginUser(found[1])]]]

Login(body) ==
    /\ server = "listening"
    /\ held' = LoginResult(body).held
    /\ resp' = LoginResult(body).resp
    /\ UNCHANGED <<users, nextId, server, seed, req, clock, call>>

----
\* The protected routes.

\* req.params.id, and the number MySQL compares the INT column id with
IdParams == {"1", "01", "2", "3"}

SqlInt(text) ==
    CASE text = "1" -> 1
      [] text = "01" -> 1
      [] text = "2" -> 2
      [] text = "3" -> 3

\* SELECT * in place of the column list
PublicMut(row) == row

\* SELECT id, username, email, full_name, role, created_at
Public(row) ==
    [id |-> row.id, username |-> row.username, email |-> row.email,
     full_name |-> row.full_name, role |-> row.role, created_at |-> row.created_at]

RECURSIVE PublicAll(_)
PublicAll(rows) ==
    IF rows = <<>> THEN <<>> ELSE <<Public(Head(rows))>> \o PublicAll(Tail(rows))

\* the SELECT without its WHERE clause
SelectByIdMut(rows, id) == ById(rows)

\* ... WHERE id = ?
SelectById(rows, id) == ById({row \in rows : row.id = SqlInt(id)})

\* GET /api/users
ListUsersResult(authHeader) ==
    LET denied == AuthenticateToken(authHeader, clock)
    IN  IF denied # 0 THEN [resp |-> StatusResp("listUsers", denied)]
        ELSE [resp |-> [op |-> "listUsers", status |-> 200,
                        body |-> [array |-> PublicAll(ById(users))]]]

ListUsers(authHeader) ==
    /\ server = "listening"
    /\ resp' = ListUsersResult(authHeader).resp
    /\ UNCHANGED <<users, nextId, server, seed, req, held, clock, call>>

\* GET /api/users/:id
GetUserResult(authHeader, id) ==
    LET denied == AuthenticateToken(authHeader, clock)
        found == SelectById(users, id)
    IN  IF denied # 0 THEN [resp |-> StatusResp("getUser", denied)]
        ELSE IF Len(found) = 0 THEN [resp |-> ErrorResp("getUser", 404, "User not found")]
        ELSE [resp |-> [op |-> "getUser", status |-> 200, body |-> Public(found[1])]]

GetUser(authHeader, id) ==
    /\ server = "listening"
    /\ resp' = GetUserResult(authHeader, id).resp
    /\ UNCHANGED <<users, nextId, server, seed, req, held, clock, call>>

\* the bodies PUT /api/users/:id is called with
UpdateBodies ==
    { [username |-> "bob", email |-> "amy@x.com", full_name |-> "Robert"],
      [username |-> Undefined, email |-> Undefined, full_name |-> "Robert"] }

\* UPDATE users SET username = ?, email = ?, full_name = ? WHERE id = ?
UpdatedRow(row, body) ==
    [row EXCEPT !.username = body.username, !.email = body.email,
                !.full_name = OrElse(body.full_name, "")]

\* the bodies PUT /api/users/:id is called with when fields are left out
PartialBodies ==
    { [username |-> "admin", email |-> Undefined, full_name |-> Undefined],
      [username |-> Undefined, email |-> "bob@x.com", full_name |-> "Robert"],
      [username |-> "bob", email |-> "bob@x.com", full_name |-> Undefined],
      [username |-> "admin", email |-> "bob@x.com", full_name |-> "Robert"] }

\* db.execute(sql, [username, email, full_name || '', id]) throws before sending
\* anything when a bind parameter is undefined
BindableMut(body) == TRUE

Bindable(body) == body.username # Undefined /\ body.email # Undefined

\* PUT /api/users/:id against a table whose UPDATE checks no unique index
UpdateUserResultMut(authHeader, id, body) ==
    LET denied == AuthenticateToken(authHeader, clock)
        found == SelectById(users, id)
    IN  IF denied # 0
        THEN [users |-> users, resp |-> StatusResp("updateUser", denied)]
        ELSE IF ~Bindable(body)
        THEN [users |-> users, resp |-> ErrorResp("updateUser", 500, "Failed to update user")]
        ELSE IF Len(found) = 0
        THEN [users |-> users, resp |-> ErrorResp("updateUser", 404, "User not found")]
        ELSE [users |-> (users \ {found[1]}) \cup {UpdatedRow(found[1], body)},
              resp |-> MessageResp("updateUser", "User updated successfully")]

\* PUT /api/users/:id.  The driver refuses a bind parameter that is undefined
\* before any statement reaches the store.
UpdateUserResult(authHeader, id, body) ==
    LET denied == AuthenticateToken(authHeader, clock)
        found == SelectById(users, id)
    IN  IF denied # 0
        THEN [users |-> users, resp |-> StatusResp("updateUser", denied)]
        ELSE IF ~Bindable(body)
        THEN [users |-> users, resp |-> ErrorResp("updateUser", 500, "Failed to update user")]
        ELSE IF Len(found) = 0
        THEN [users |-> users, resp |-> ErrorResp("updateUser", 404, "User not found")]
        ELSE IF UniqueViolation(users, found[1].id, body.username, body.email)
        THEN [users |-> users,
              resp |-> ErrorResp("updateUser", 400, "Username or email already exists")]
        ELSE [users |-> (users \ {found[1]}) \cup {UpdatedRow(found[1], body)},
              resp |-> MessageResp("updateUser", "User updated successfully")]

UpdateUser(authHeader, id, body) ==
    /\ server = "listening"
    /\ users' = UpdateUserResult(authHeader, id, body).users
    /\ resp' = UpdateUserResult(authHeader, id, body).resp
    /\ UNCHANGED <<nextId, server, seed, req, held, clock, call>>

\* if (id === '1'): the guard of the admin account
IsProtectedId(id) == StrictEq(id, "1")

\* DELETE /api/users/:id
DeleteUserResult(authHeader, id) ==
    LET denied == AuthenticateToken(authHeader, clock)
        found == SelectById(users, id)
    IN  IF denied # 0
        THEN [users |-> users, resp |-> StatusResp("deleteUser", denied)]
        ELSE IF IsProtectedId(id)
        THEN [users |-> users,
              resp |-> ErrorResp("deleteUser", 403, "Cannot delete admin account")]
        ELSE IF Len(found) = 0
        THEN [users |-> users, resp |-> ErrorResp("deleteUser", 404, "User not found")]
        ELSE [users |-> users \ {found[1]},
              resp |-> MessageResp("deleteUser", "User deleted successfully")]

DeleteUser(authHeader, id) ==
    /\ server = "listening"
    /\ users' = DeleteUserResult(authHeader, id).users
    /\ resp' = DeleteUserResult(authHeader, id).resp
    /\ UNCHANGED <<nextId, server, seed, req, held, clock, call>>

----
\* Time passes, in steps of TickHours.
TickHours == {12}

Tick ==
    /\ clock < MaxClock
    /\ \E hours \in TickHours : clock' = clock + hours
    /\ UNCHANGED <<users, nextId, server, seed, req, held, resp, call>>

----
\* Startup and seeding.
Startup ==
    \/ InitializeDatabase
    \/ InitializeDatabaseFails
    \/ SeedCheck
    \/ SeedInsert

\* register on connection r
Register(r) ==
    \/ \E body \in RegisterBodies : RegisterStart(r, body)
    \/ RegisterInsert(r)

\* the routes behind authenticateToken
Protected ==
    \/ \E authHeader \in Headers : ListUsers(authHeader)
    \/ \E authHeader \in Headers, id \in IdParams : GetUser(authHeader, id)
    \/ \E authHeader \in Headers, id \in IdParams, body \in UpdateBodies :
            UpdateUser(authHeader, id, body)
    \/ \E authHeader \in Headers, id \in IdParams : DeleteUser(authHeader, id)

\* The server with every route, one register request in flight at a time.
Next ==
    \/ Startup
    \/ Register("c1")
    \/ \E body \in LoginBodies : Login(body)
    \/ Protected

Spec == Init /\ [][Next]_vars

\* Register requests racing on both connections during and after startup.
NextRace ==
    \/ Startup
    \/ \E r \in Slots : Register(r)

SpecRace == Init /\ [][NextRace]_vars

\* The seeded administrator and its tokens while time passes.
NextClock ==
    \/ Startup
    \/ \E body \in LoginBodies : Login(body)
    \/ Protected
    \/ Tick

SpecClock == Init /\ [][NextClock]_vars

\* The protected routes called with whole and with partial update bodies, on a
\* store holding the administrator and one registered user.
NextUpdate ==
    \/ Startup
    \/ \E body \in {b \in RegisterBodies : b.email = "bob@x.com"} :
            RegisterStart("c1", body)
    \/ RegisterInsert("c1")
    \/ \E body \in LoginBodies : Login(body)
    \/ \E authHeader \in Headers : ListUsers(authHeader)
    \/ \E authHeader \in Headers, id \in IdParams : GetUser(authHeader, id)
    \/ \E authHeader \in Headers, id \in IdParams,
          body \in UpdateBodies \cup PartialBodies :
            UpdateUser(authHeader, id, body)
    \/ \E authHeader \in Headers, id \in IdParams : DeleteUser(authHeader, id)

SpecUpdate == Init /\ [][NextUpdate]_vars

\* the register bodies a client sends to try the server's input checks
InputBodies ==
    { [username |-> "amy", email |-> "invalid-email", password |-> "pw1",
       full_name |-> "Amy", role |-> Undefined],
      [username |-> "<script>alert(1)</script>", email |-> "xss@x.com",
       password |-> "pw1", full_name |-> Undefined, role |-> Undefined],
      [username |-> "eve", email |-> "eve@x.com", password |-> "pw1",
       full_name |-> "<img src=x onerror=alert(1)>", role |-> Undefined],
      [username |-> "mod", email |-> "mod@x.com", password |-> "pw1",
       full_name |-> Undefined, role |-> "moderator"] }

\* Register called with well-formed and with ill-formed input, and the
\* routes that serve what it stored.
NextInput ==
    \/ Startup
    \/ \E body \in InputBodies \cup {b \in RegisterBodies : b.email = "bob@x.com"} :
            RegisterStart("c1", body)
    \/ RegisterInsert("c1")
    \/ \E body \in LoginBodies : Login(body)
    \/ \E authHeader \in Headers : ListUsers(authHeader)

SpecInput == Init /\ [][NextInput]_vars

\* the largest retries argument handleDbError is called with
MaxRetries == 3

\* handleDbError is called with an operation of the caller
Call(retries) ==
    /\ Over(call)
    /\ call' = HandleDbError("operation", Null, retries)
    /\ UNCHANGED <<users, nextId, server, seed, req, held, clock, resp>>

\* an invocation of the caller's operation resolves
OperationResolves ==
    /\ call.pc = "invoke"
    /\ call.op = "operation"
    /\ call' = Resolved(call)
    /\ UNCHANGED <<users, nextId, server, seed, req, held, clock, resp>>

\* an invocation of the caller's operation rejects
OperationRejects(error) ==
    /\ call.pc = "invoke"
    /\ call.op = "operation"
    /\ call' = Rejected(call, error)
    /\ UNCHANGED <<users, nextId, server, seed, req, held, clock, resp>>

\* handleDbError on its own, called with every retries argument and with
\* operations that resolve or reject at every attempt.
NextRetry ==
    \/ \E retries \in 0..MaxRetries : Call(retries)
    \/ OperationResolves
    \/ \E error \in Errors : OperationRejects(error)
    \/ Backoff

SpecRetry == Init /\ [][NextRetry]_vars

\* the errors of a store that is unreachable for a moment
TransientErrors == Errors \ {"ER_DUP_ENTRY"}

\* db.execute called outside handleDbError rejects: one invocation, no wait,
\* and the error reaches the caller's catch block
DirectFailure(op, arg, error) ==
    [pc |-> "thrown", op |-> op, arg |-> arg, retries |-> 0, i |-> 0,
     invoked |-> 1, slept |-> <<>>, outcomes |-> <<error>>, error |-> error]

\* GET /api/users passes the token check and calls handleDbError
ListUsersCall(authHeader) ==
    /\ server = "listening"
    /\ Over(call)
    /\ AuthenticateToken(authHeader, clock) = 0
    /\ call' = HandleDbError("listUsers", authHeader, Retries)
    /\ UNCHANGED <<users, nextId, server, seed, req, held, clock, resp>>

\* an attempt of listUsers' SELECT resolves: res.json(users)
ListUsersResolves ==
    /\ call.pc = "invoke"
    /\ call.op = "listUsers"
    /\ call' = Resolved(call)
    /\ resp' = ListUsersResult(call.arg).resp
    /\ UNCHANGED <<users, nextId, server, seed, req, held, clock>>

\* an attempt of listUsers' SELECT rejects: the final one reaches the catch block
ListUsersRejects(error) ==
    /\ call.pc = "invoke"
    /\ call.op = "listUsers"
    /\ call' = Rejected(call, error)
    /\ resp' = IF Rejected(call, error).pc = "thrown"
               THEN ErrorResp("listUsers", 500, "Failed to fetch users")
               ELSE resp
    /\ UNCHANGED <<users, nextId, server, seed, req, held, clock>>

\* getUser's SELECT rejects
GetUserFails(authHeader, id, error) ==
    /\ server = "listening"
    /\ Over(call)
    /\ AuthenticateToken(authHeader, clock) = 0
    /\ call' = DirectFailure("getUser", authHeader, error)
    /\ resp' = ErrorResp("getUser", 500, "Failed to fetch user")
    /\ UNCHANGED <<users, nextId, server, seed, req, held, clock>>

\* updateUser's UPDATE rejects with an error other than ER_DUP_ENTRY
UpdateUserFails(authHeader, id, body, error) ==
    /\ server = "listening"
    /\ Over(call)
    /\ AuthenticateToken(authHeader, clock) = 0
    /\ Bindable(body)
    /\ call' = DirectFailure("updateUser", authHeader, error)
    /\ resp' = ErrorResp("updateUser", 500, "Failed to update user")
    /\ UNCHANGED <<users, nextId, server, seed, req, held, clock>>

\* deleteUser's DELETE rejects
DeleteUserFails(authHeader, id, error) ==
    /\ server = "listening"
    /\ Over(call)
    /\ AuthenticateToken(authHeader, clock) = 0
    /\ ~IsProtectedId(id)
    /\ call' = DirectFailure("deleteUser", authHeader, error)
    /\ resp' = ErrorResp("deleteUser", 500, "Failed to delete user")
    /\ UNCHANGED <<users, nextId, server, seed, req, held, clock>>

\* The protected routes on a store that may be unreachable for a moment at
\* any of their statements.
NextFault ==
    \/ Startup
    \/ \E body \in LoginBodies : Login(body)
    \/ \E authHeader \in Headers : ListUsersCall(authHeader)
    \/ ListUsersResolves
    \/ \E error \in TransientErrors : ListUsersRejects(error)
    \/ Backoff
    \/ \E authHeader \in Headers, id \in IdParams : GetUser(authHeader, id)
    \/ \E authHeader \in Headers, id \in IdParams, error \in TransientErrors :
            GetUserFails(authHeader, id, error)
    \/ \E authHeader \in Headers, id \in IdParams, body \in UpdateBodies :
            UpdateUser(authHeader, id, body)
    \/ \E authHeader \in Headers, id \in IdParams, body \in UpdateBodies,
          error \in TransientErrors :
            UpdateUserFails(authHeader, id, body, error)
    \/ \E authHeader \in Headers, id \in IdParams : DeleteUser(authHeader, id)
    \/ \E authHeader \in Headers, id \in IdParams, error \in TransientErrors :
            DeleteUserFails(authHeader, id, error)

SpecFault == Init /\ [][NextFault]_vars



----
\* Properties of register.

\* username, email and password are all present and non-empty
Complete(body) ==
    /\ body.username \notin {Undefined, ""}
    /\ body.email \notin {Undefined, ""}
    /\ body.password \notin {Undefined, ""}

\* some stored row already has the body's username or its email, as the store
\* compares them
Taken(body) ==
    \E row \in users : SqlEq(row.username, body.username) \/ SqlEq(row.email, body.email)

\* connection r can take a new register request
CanRegister(r) == server = "listening" /\ req[r].pc \in {"idle", "done"}

\* connection r is about to run its INSERT
AtInsert(r) == server = "listening" /\ req[r].pc = "insert"

C2_RegisterDuplicateRejected ==
    \A r \in Slots :
        /\ req[r].i <= Retries
        /\ \A body \in RegisterBodies :
              (CanRegister(r) /\ Complete(body) /\ Taken(body))
              => LET res == RegisterStartResult(r, body)
                 IN  \/ /\ res.resp.op = "register"
                        /\ res.resp.status = 400
                        /\ DOMAIN res.resp.body = {"error"}
                        /\ res.req[r].pc = "done"
                        /\ res.req[r].status = 400
                     \/ /\ res.req[r].pc = "insert"
                        /\ res.req[r].i = 0
                        /\ res.resp = resp
        /\ (AtInsert(r) /\ Taken(req[r].body))
              => LET res == RegisterInsertResult(r)
                 IN  /\ res.users = users
                     /\ res.nextId = nextId
                     /\ IF req[r].i < Retries
                        THEN /\ res.req[r].pc = "insert"
                             /\ res.req[r].i = req[r].i + 1
                             /\ res.resp = resp
                        ELSE /\ res.resp.op = "register"
                             /\ res.resp.status = 400
                             /\ DOMAIN res.resp.body = {"error"}
                             /\ res.req[r].pc = "done"
                             /\ res.req[r].status = 400

\* a register call for a taken username or email has been answered 400 after
\* its INSERT was refused, and the store holds no row for it
C2_DuplicateRefused ==
    /\ resp = DuplicateEntryResp
    /\ \E r \in Slots :
          /\ req[r].pc = "done"
          /\ req[r].status = 400
          /\ Complete(req[r].body)
          /\ Taken(req[r].body)
          /\ ~\E row \in users : row.username = req[r].body.username

----
\* Properties of login.

\* identity and password are both present in the body
Present(body) == ~Falsy(body.username) /\ ~Falsy(body.password)

\* the stored users whose username or email the identity equals
Matching(identity) ==
    {row \in users : SqlEq(row.username, identity) \/ SqlEq(row.email, identity)}

\* C3: login succeeds (200 with a token) if and only if the identity equals
\* the username or the email of some stored user and the password verifies
\* against that user's stored hash; in every other case with both fields
\* present it answers 401.  Stated of every login step, whatever the store
\* holds, stores where one user's username is another user's email included.
C3_LoginIffCredentials ==
    [][\A body \in LoginBodies :
          (Login(body) /\ Present(body))
          => IF \E row \in Matching(body.username) : Compare(body.password, row.password)
             THEN resp'.status = 200 /\ "token" \in DOMAIN resp'.body
             ELSE resp'.status = 401]_vars

\* C4: the login failure response does not tell an unknown identity from a
\* wrong password: of any two failing login calls, one whose identity matches
\* no user and one whose password does not verify, the status and the body are
\* identical, and neither issues a token.
C4_LoginFailuresIndistinguishable ==
    server = "listening"
    => \A unknown, wrong \in LoginBodies :
          ( /\ Present(unknown)
            /\ Present(wrong)
            /\ Matching(unknown.username) = {}
            /\ Matching(wrong.username) # {}
            /\ LoginResult(wrong).resp.status # 200 )
          => /\ LoginResult(unknown).resp.status = LoginResult(wrong).resp.status
             /\ LoginResult(unknown).resp.body = LoginResult(wrong).resp.body
             /\ LoginResult(unknown).resp.status = 401
             /\ LoginResult(unknown).held = held
             /\ LoginResult(wrong).held = held

\* a login has just failed in a store where both kinds of failure are possible
C4_LoginFailed ==
    /\ resp.op = "login"
    /\ resp.status = 401
    /\ \E unknown \in LoginBodies : Present(unknown) /\ Matching(unknown.username) = {}
    /\ \E wrong \in LoginBodies :
          /\ Present(wrong)
          /\ Matching(wrong.username) # {}
          /\ LoginResult(wrong).resp.status = 401

----
\* Properties of the protected routes.

\* the token is the one login issued, within 24 hours of its issuance
Genuine(token) == held # Null /\ token = held /\ clock < held.iat + ExpiresIn

\* the request carries no token: it has no Authorization header, or a header
\* made of a scheme word with nothing after it
NoToken(authHeader) == ~authHeader.present \/ Len(authHeader.words) = 1

\* the request carries a token that is invalid or expired: the empty text of
\* an empty header, a word that is no token, a token signed with another key,
\* or the server's own token 24 hours or more after its issuance
BadToken(authHeader) ==
    /\ authHeader.present
    /\ \/ Len(authHeader.words) = 0
       \/ Len(authHeader.words) >= 2 /\ ~Genuine(authHeader.words[2])

\* the request carries the token login issued, still valid, after a scheme word
GoodToken(authHeader) ==
    /\ authHeader.present
    /\ Len(authHeader.words) >= 2
    /\ Genuine(authHeader.words[2])

\* the response is the bare status the token check answers with, nothing of it
\* produced by a handler or read from the store
Refused(response, status) ==
    /\ response.status = status
    /\ response.body = [text |-> IF status = 401 THEN "Unauthorized" ELSE "Forbidden"]

\* C5: listUsers, getUser, updateUser and deleteUser each require a valid
\* token: a request with no token is answered 401 and a request with an
\* invalid or expired token is answered 403, and in both cases the handler
\* does not run: the response carries nothing of the store and the store is
\* unchanged.
C5_TokenRequired ==
    server = "listening"
    => \A authHeader \in Headers :
          (NoToken(authHeader) \/ BadToken(authHeader))
          => LET status == IF NoToken(authHeader) THEN 401 ELSE 403
             IN  /\ Refused(ListUsersResult(authHeader).resp, status)
                 /\ \A id \in IdParams :
                       /\ Refused(GetUserResult(authHeader, id).resp, status)
                       /\ Refused(DeleteUserResult(authHeader, id).resp, status)
                       /\ DeleteUserResult(authHeader, id).users = users
                       /\ \A body \in UpdateBodies :
                             /\ Refused(UpdateUserResult(authHeader, id, body).resp, status)
                             /\ UpdateUserResult(authHeader, id, body).users = users

\* a deleteUser request carrying an expired token has just been answered 403
\* and the record it named is still stored
C5_ExpiredRefused ==
    /\ resp.op = "deleteUser"
    /\ Refused(resp, 403)
    /\ held # Null
    /\ clock >= held.iat + ExpiresIn
    /\ \E row \in users : row.id = 1

\* C6: only a caller whose token carries role admin may list, get, update or
\* delete other users' records: a request made with a valid token whose role
\* is user that concerns another user's record is answered 403 and leaves the
\* store as it was.
C6_OnlyAdminManagesOthers ==
    [][\A authHeader \in Headers :
          (GoodToken(authHeader) /\ held.role = "user")
          => /\ (ListUsers(authHeader) /\ \E row \in users : row.id # held.userId)
                => (resp'.status = 403 /\ users' = users)
             /\ \A id \in IdParams :
                   (\E row \in users : row.id = SqlInt(id) /\ row.id # held.userId)
                   => /\ GetUser(authHeader, id) => resp'.status = 403
                      /\ DeleteUser(authHeader, id)
                            => (resp'.status = 403 /\ users' = users)
                      /\ \A body \in UpdateBodies :
                            UpdateUser(authHeader, id, body)
                            => (resp'.status = 403 /\ users' = users)]_vars

\* C7: a token issued by login is accepted by listUsers, getUser, updateUser
\* and deleteUser at every time less than 24 hours after its issuance (the
\* request reaches the handler, which answers), and is answered 403 by the
\* token check at every later time.
C7_TokenLifetime ==
    (server = "listening" /\ held # Null)
    => LET authHeader == Header(<<Word("Bearer"), held>>)
           Settled(response) ==
               IF clock < held.iat + ExpiresIn
               THEN "text" \notin DOMAIN response.body
               ELSE Refused(response, 403)
       IN  /\ Settled(ListUsersResult(authHeader).resp)
           /\ \A id \in IdParams :
                 /\ Settled(GetUserResult(authHeader, id).resp)
                 /\ Settled(DeleteUserResult(authHeader, id).resp)
                 /\ \A body \in UpdateBodies :
                       Settled(UpdateUserResult(authHeader, id, body).resp)

\* a token has been refused by listUsers exactly 24 hours after its issuance
C7_RefusedAtExpiry ==
    /\ held # Null
    /\ clock = held.iat + ExpiresIn
    /\ resp.op = "listUsers"
    /\ Refused(resp, 403)

\* the seeded administrator user
IsAdminRecord(row) ==
    row.username = "admin" /\ row.email = "admin@admin.com" /\ row.role = "admin"

\* C8: a deleteUser request with a valid token that identifies the seeded
\* administrator's record is always answered 403, whatever the caller's role
\* and however the id is written in the request, and the record is still in
\* the store afterwards.
C8_AdminNeverDeleted ==
    [][\A authHeader \in Headers, id \in IdParams :
          \A row \in users :
             ( /\ DeleteUser(authHeader, id)
               /\ GoodToken(authHeader)
               /\ IsAdminRecord(row)
               /\ row.id = SqlInt(id) )
             => (resp'.status = 403 /\ row \in users')]_vars

----
\* Properties of the store under interleaving.

\* C9: in every reachable state of the store, after any sequence and any
\* interleaving of register, updateUser, deleteUser and admin seeding, no two
\* distinct users share a username and no two distinct users share an email
\* (nor, under the store's comparison, a spelling of one); ids are distinct too.
C9_UsernameAndEmailUnique ==
    \A a, b \in users :
        a # b => /\ a.id # b.id
                 /\ ~SqlEq(a.username, b.username)
                 /\ ~SqlEq(a.email, b.email)

\* two users are stored and an update that would have given one of them the
\* other's username has just been answered 400
C9_UpdateRefused ==
    /\ Cardinality(users) = 2
    /\ resp.op = "updateUser"
    /\ resp.status = 400
    /\ \E body \in UpdateBodies, a, b \in users :
          a # b /\ SqlEq(a.username, body.username) /\ ~SqlEq(b.username, body.username)

\* the two bodies ask for the same username or the same email
Clash(b1, b2) == SqlEq(b1.username, b2.username) \/ SqlEq(b1.email, b2.email)

\* row is what a 201 for body leaves in the store
RowOf(row, body) == row.username = body.username /\ row.email = body.email

\* The requests answered on connections r1 and r2 raced: both are complete,
\* they clash, and every stored row clashing with either of them was written
\* after both existence checks had run, by one of the two.
Raced(r1, r2) ==
    /\ r1 # r2
    /\ req[r1].pc = "done"
    /\ req[r2].pc = "done"
    /\ Complete(req[r1].body)
    /\ Complete(req[r2].body)
    /\ Clash(req[r1].body, req[r2].body)
    /\ \A row \in users :
          (Clash(row, req[r1].body) \/ Clash(row, req[r2].body))
          => /\ row.id >= req[r1].seen
             /\ row.id >= req[r2].seen
             /\ RowOf(row, req[r1].body) \/ RowOf(row, req[r2].body)

\* C10: when two register requests with the same username or the same email
\* run concurrently and both pass the existence check before either inserts,
\* exactly one of them is answered 201 and writes one row, and the other is
\* answered 400, not 500.
C10_RaceOneWinner ==
    \A r1, r2 \in Slots :
        Raced(r1, r2)
        => /\ {req[r1].status, req[r2].status} = {201, 400}
           /\ Cardinality({row \in users :
                              Clash(row, req[r1].body) \/ Clash(row, req[r2].body)}) = 1

\* two racing requests for the same username have both been answered, the
\* second of them by the refusal of its INSERT
C10_RaceLost ==
    /\ resp = DuplicateEntryResp
    /\ \E r1, r2 \in Slots :
          /\ Raced(r1, r2)
          /\ req[r1].status = 201
          /\ req[r2].status = 400

----
\* Properties of updateUser.

\* every body updateUser is called with
AllUpdateBodies == UpdateBodies \cup PartialBodies

\* the stored rows the path parameter id identifies
Target(id) == {row \in users : row.id = SqlInt(id)}

\* what a partial update with body makes of row: a supplied field takes the
\* body's value, a field the body leaves out keeps the row's
Merged(row, body) ==
    [row EXCEPT
        !.username = IF body.username = Undefined THEN @ ELSE body.username,
        !.email = IF body.email = Undefined THEN @ ELSE body.email,
        !.full_name = IF body.full_name = Undefined THEN @ ELSE body.full_name]

\* applying body to row collides with no other stored row
Free(row, body) ==
    \A other \in users \ {row} :
        /\ ~SqlEq(other.username, Merged(row, body).username)
        /\ ~SqlEq(other.email, Merged(row, body).email)

\* C11: updateUser is a partial update: for an existing id, updateUser(id,
\* {fullName: X}) followed by getUser(id) returns fullName = X with username,
\* email, role, id and createdAt unchanged, and in general a field the body
\* does not supply is left unchanged, not overwritten with an empty value.
\* Stated of every updateUser step with a valid token on an existing row that
\* the update cannot make collide with another: it answers 200 and the row
\* getUser(id) reads afterwards is the old row with the supplied fields set.
C11_PartialUpdate ==
    [][\A authHeader \in Headers, id \in IdParams, body \in AllUpdateBodies :
          \A row \in Target(id) :
             ( /\ UpdateUser(authHeader, id, body)
               /\ GoodToken(authHeader)
               /\ Free(row, body) )
             => /\ resp'.status = 200
                /\ users' = (users \ {row}) \cup {Merged(row, body)}]_vars

\* C12: an updateUser request with a valid token whose body omits username or
\* email is answered 500 with an error body, whether the id exists or not, and
\* leaves the store unchanged.
C12_OmittedFieldIs500 ==
    server = "listening"
    => \A authHeader \in Headers, id \in IdParams, body \in AllUpdateBodies :
          ( /\ GoodToken(authHeader)
            /\ body.username = Undefined \/ body.email = Undefined )
          => /\ UpdateUserResult(authHeader, id, body).resp.status = 500
             /\ DOMAIN UpdateUserResult(authHeader, id, body).resp.body = {"error"}
             /\ UpdateUserResult(authHeader, id, body).users = users

\* an update has just been answered 500 in a store of two users
C12_Answered500 ==
    /\ resp.op = "updateUser"
    /\ resp.status = 500
    /\ held # Null
    /\ Cardinality(users) = 2

\* C13: updateUser on an id that does not exist in the store answers 404,
\* not 500, whichever of username, email and fullName the request supplies, and
\* writes nothing.  Stated of every updateUser step with a valid token.
C13_UpdateUnknownIs404 ==
    [][\A authHeader \in Headers, id \in IdParams, body \in AllUpdateBodies :
          ( /\ UpdateUser(authHeader, id, body)
            /\ GoodToken(authHeader)
            /\ Target(id) = {} )
          => /\ resp'.status = 404
             /\ users' = users]_vars

\* body gives row a username or an email that another stored row has
Collides(row, body) ==
    \E other \in users \ {row} :
        \/ body.username # Undefined /\ SqlEq(other.username, body.username)
        \/ body.email # Undefined /\ SqlEq(other.email, body.email)

\* C14: updateUser whose new username or email equals that of a different
\* existing row answers 400 atomically: none of username, email or fullName of
\* the targeted row is changed and no other row is changed.  Stated of every
\* updateUser step with a valid token on an existing row.
C14_UpdateDuplicateIs400 ==
    [][\A authHeader \in Headers, id \in IdParams, body \in AllUpdateBodies :
          \A row \in Target(id) :
             ( /\ UpdateUser(authHeader, id, body)
               /\ GoodToken(authHeader)
               /\ Collides(row, body) )
             => /\ resp'.status = 400
                /\ users' = users]_vars

----
\* Properties of deleteUser, getUser and listUsers.

\* C15: deleteUser with a valid token on an id that is not the protected admin
\* record removes exactly that row and answers 200 when the id exists, after
\* which getUser on that id answers 404; when the id does not exist it answers
\* 404 and the store is unchanged.  Stated of every deleteUser step.
C15_DeleteRemovesRow ==
    [][\A authHeader \in Headers, id \in IdParams :
          ( /\ DeleteUser(authHeader, id)
            /\ GoodToken(authHeader)
            /\ \A row \in Target(id) : ~IsAdminRecord(row) )
          => IF Target(id) # {}
             THEN /\ resp'.status = 200
                  /\ users' = users \ Target(id)
                  /\ GetUserResult(authHeader, id)'.resp.status = 404
             ELSE /\ resp'.status = 404
                  /\ users' = users]_vars

\* C16: getUser(id) with a valid token returns the public fields (id,
\* username, email, full_name, role, created_at, and nothing else) of the
\* stored user with that id when it exists, and answers 404 with an error body
\* when no user has that id.
C16_GetUser ==
    server = "listening"
    => \A authHeader \in Headers, id \in IdParams :
          GoodToken(authHeader)
          => LET response == GetUserResult(authHeader, id).resp
             IN  IF Target(id) = {}
                 THEN /\ response.status = 404
                      /\ DOMAIN response.body = {"error"}
                 ELSE /\ response.status = 200
                      /\ DOMAIN response.body =
                            {"id", "username", "email", "full_name", "role", "created_at"}
                      /\ \E row \in Target(id) :
                            \A field \in DOMAIN response.body :
                               response.body[field] = row[field]

\* getUser has just returned the record of a registered user whose fields an
\* update had changed
C16_GotUpdatedUser ==
    /\ resp.op = "getUser"
    /\ resp.status = 200
    /\ resp.body.id = 2
    /\ resp.body.full_name = "Robert"
    /\ \E row \in users : row.id = 2 /\ row.full_name = "Robert"

----
\* Properties of passwords.

\* the plaintext passwords in use
Plaintexts == {"pw1", "pw2", "admin123"}

\* the text fields of a response
TextFields == {"username", "email", "full_name", "role", "error", "message", "text"}

\* a user object of a response: public fields only, none of them a password
UserSafe(user) ==
    /\ DOMAIN user \subseteq {"id", "username", "email", "full_name", "role", "created_at"}
    /\ \A field \in DOMAIN user \cap TextFields : user[field] \notin Plaintexts

\* a response body: texts that are no password, user objects that are safe,
\* and a token whose payload is userId, username and role
BodySafe(body) ==
    /\ DOMAIN body \subseteq
          {"none", "error", "message", "text", "user", "token", "array",
           "id", "username", "email", "full_name", "role", "created_at"}
    /\ \A field \in DOMAIN body \cap TextFields : body[field] \notin Plaintexts
    /\ "id" \in DOMAIN body => UserSafe(body)
    /\ "user" \in DOMAIN body => UserSafe(body.user)
    /\ "array" \in DOMAIN body =>
          \A i \in 1..Len(body.array) : UserSafe(body.array[i])
    /\ "token" \in DOMAIN body =>
          DOMAIN body.token = {"userId", "username", "role", "iat", "exp", "sig"}

\* C18: every stored user has a password hash, and no response of any
\* operation (register, login, listUsers, getUser, updateUser, deleteUser,
\* success or failure) contains a user's plaintext password or password hash.
\* resp is every response the server sends, in turn.
C18_PasswordsStayInside ==
    /\ \A row \in users : \E password \in Plaintexts : Compare(password, row.password)
    /\ BodySafe(resp.body)

\* the record of a registered user, whose hash is stored, has just been
\* returned by getUser
C18_RecordReturned ==
    /\ resp.op = "getUser"
    /\ resp.status = 200
    /\ \E row \in users :
          /\ row.id = resp.body.id
          /\ row.role = "user"
          /\ Compare("pw1", row.password)

----
\* Properties of register's input checks.

\* the texts that match the grammar of an email address
ValidEmail(email) ==
    email \in {"bob@x.com", "amy@x.com", "admin@admin.com", "xss@x.com", "eve@x.com",
               "mod@x.com"}

\* the texts that contain an HTML or script tag
HasMarkup(text) ==
    text \in {"<script>alert(1)</script>", "<img src=x onerror=alert(1)>"}

\* C19: every register call whose email does not match a valid email grammar
\* is answered 400 and writes no row.
C19_InvalidEmailRejected ==
    /\ \A r \in Slots :
          (req[r].pc = "done" /\ ~ValidEmail(req[r].body.email))
          => req[r].status = 400
    /\ \A row \in users : ValidEmail(row.email)

\* C20: every register call whose username or fullName contains an HTML or
\* script tag pattern is answered 400 and writes no row.
C20_MarkupRejected ==
    /\ \A r \in Slots :
          ( /\ req[r].pc = "done"
            /\ HasMarkup(req[r].body.username) \/ HasMarkup(req[r].body.full_name) )
          => req[r].status = 400
    /\ \A row \in users : ~HasMarkup(row.username) /\ ~HasMarkup(row.full_name)

----
\* Properties of the required-field checks.

\* the 400 of register's required-field check
RequiredResp == ErrorResp("register", 400, "Username, email, and password are required")

\* C21: a register call in which username, email or password is missing or
\* empty is answered 400 with an error body before any store operation is
\* issued, so the store is unchanged: whatever the store holds, rows with the
\* body's email included, the answer is that of the required-field check, the
\* request is over and no INSERT is pending.
C21_RequiredFields ==
    \A r \in Slots, body \in RegisterBodies :
        (CanRegister(r) /\ ~Complete(body))
        => /\ RegisterStartResult(r, body).resp = RequiredResp
           /\ DOMAIN RegisterStartResult(r, body).resp.body = {"error"}
           /\ RegisterStartResult(r, body).req[r].pc = "done"
           /\ RegisterStartResult(r, body).req[r].status = 400

\* a register call without a username has just been refused although its
\* email is already stored, and no row was written for it
C21_RefusedBeforeLookup ==
    /\ resp = RequiredResp
    /\ \E r \in Slots :
          /\ req[r].pc = "done"
          /\ req[r].status = 400
          /\ req[r].body.username = ""
          /\ \E row \in users : row.email = req[r].body.email
    /\ \A row \in users : row.username # ""

\* C22: a login call in which the identity or the password is missing is
\* answered 400 with an error body, never 401, and issues no store lookup and
\* no token: whatever the store holds and whichever field is present, the
\* answer is that of the required-field check and the client's token is as
\* before.
C22_LoginRequiredFields ==
    server = "listening"
    => \A body \in LoginBodies :
          (body.username = Undefined \/ body.password = Undefined)
          => /\ LoginResult(body).resp.status = 400
             /\ LoginResult(body).resp.body = [error |-> "Username and password are required"]
             /\ LoginResult(body).held = held

\* a login without all its fields has just been refused while the
\* administrator is stored and the client holds a token from before
C22_LoginRefused ==
    /\ resp.op = "login"
    /\ resp.status = 400
    /\ held # Null
    /\ \E row \in users : IsAdminRecord(row)

----
\* Properties of retried inserts.

\* C24: no retry is attempted for a logical error: a store operation that
\* fails with a uniqueness violation is attempted exactly once and its error
\* is surfaced without any further attempt or backoff delay, so the attempt of
\* register's INSERT that meets a stored username or email ends the request
\* with its answer.
C24_DuplicateKeyOnce ==
    [][\A r \in Slots :
          (/\ AtInsert(r)
           /\ UniqueViolation(users, 0, req[r].body.username, req[r].body.email)
           /\ req'[r] # req[r])
          => /\ req'[r].pc = "done"
             /\ req'[r].status = 400
             /\ resp' = DuplicateEntryResp]_vars

----
\* Properties of register's existence check.

\* C30: whenever register's existence check returns at least one row, register
\* responds 400 and never proceeds to hash the password or attempt the insert,
\* whichever way the returned row matched the submitted username or email: the
\* step that runs the check for a body some stored row matches ends the
\* request with a 400.
C30_PreCheckRejects ==
    [][\A r \in Slots :
          (/\ CanRegister(r)
           /\ req'[r] # req[r]
           /\ Complete(req'[r].body)
           /\ Taken(req'[r].body))
          => /\ req'[r].pc = "done"
             /\ req'[r].status = 400
             /\ resp'.status = 400]_vars

----
\* Properties of the stored roles.

\* C26: in every reachable state every stored user's role is one of admin or
\* user, and a register call that does not specify a role stores role user.
C26_RoleAdminOrUser ==
    /\ \A row \in users : row.role \in {"admin", "user"}
    /\ \A r \in Slots :
          (AtInsert(r) /\ req[r].body.role = Undefined)
          => \A row \in RegisterInsertResult(r).users \ users : row.role = "user"

----
\* Properties of issued tokens.

\* C27: token acceptance depends only on the token's signature and expiry and
\* never on the store: until it expires, the token login issued is accepted by
\* every protected route whatever has become of its user's row, listUsers
\* answers it with 200, and no step other than a successful login changes the
\* token, so it carries the userId, username and role read at login time.
C27_TokenOutlivesUser ==
    [][(server = "listening" /\ held # Null /\ clock < held.iat + ExpiresIn)
       => LET authHeader == Header(<<Word("Bearer"), held>>)
              Accepted(response) ==
                  ~Refused(response, 401) /\ ~Refused(response, 403)
          IN  /\ Accepted(ListUsersResult(authHeader).resp)
              /\ ListUsersResult(authHeader).resp.status = 200
              /\ \A id \in IdParams :
                    /\ Accepted(GetUserResult(authHeader, id).resp)
                    /\ Accepted(DeleteUserResult(authHeader, id).resp)
                    /\ \A body \in UpdateBodies :
                          Accepted(UpdateUserResult(authHeader, id, body).resp)
              /\ held' # held => (resp'.op = "login" /\ resp'.status = 200)]_vars

\* listUsers has answered 200 to a token whose user is no longer stored under
\* the token's id and username
C27_AcceptedAfterRemoval ==
    /\ held # Null
    /\ clock < held.iat + ExpiresIn
    /\ ~\E row \in users : row.id = held.userId /\ row.username = held.username
    /\ resp.op = "listUsers"
    /\ resp.status = 200

----
\* Properties of startup.

\* nothing has been asked of the server and nothing answered
Untouched ==
    /\ resp = NoResp
    /\ \A r \in Slots : req[r] = Idle
    /\ held = Null

\* what holds of the server's life in a state
StartupOrder ==
    /\ server \in {"init", "listening", "exited"}
    /\ server = "listening" => seed.pc # "idle"
    /\ server # "listening" => (Untouched /\ seed.pc = "idle" /\ users = {})
    /\ seed.pc = "failed" => (server = "listening" /\ resp.status # 500)

\* C28: the server accepts requests only after initializeDatabase has created
\* the users table; if initializeDatabase fails the process exits and never
\* listens; admin seeding is not awaited, so requests are handled while it
\* runs, and its failure neither stops the server nor reaches any request: a
\* process that is not listening has served nothing, a listening one has
\* started seeding, an exited or listening one stays so, and after a failed
\* seeding the server listens and no request is answered 500.
C28_ListenAfterInitialize ==
    [][/\ StartupOrder
       /\ StartupOrder'
       /\ server = "exited" => server' = "exited"
       /\ server = "listening" => server' = "listening"
       /\ (seed.pc = "failed" /\ resp' # resp) => resp'.status # 500]_vars

\* a register request was answered 201 while seeding ran, seeding then failed,
\* and the server still listens with no administrator stored
C28_ServedWhileSeeding ==
    /\ server = "listening"
    /\ seed.pc = "failed"
    /\ \E r \in Slots : req[r].pc = "done" /\ req[r].status = 201
    /\ ~\E row \in users : IsAdminRecord(row)

----
\* Properties of admin seeding.

\* C25: once startup seeding has completed, exactly one user holds the
\* reserved administrator identity (username admin, email admin@admin.com,
\* role admin), whatever the store held before and whatever requests ran
\* during seeding.
C25_OneAdministrator ==
    seed.pc = "done" => Cardinality({row \in users : IsAdminRecord(row)}) = 1

----
\* Properties of handleDbError.

\* C23: every store operation issued by any endpoint is retried a bounded
\* number of times with increasing backoff when it fails transiently, and only
\* after the retries are exhausted does the request surface the 500: a step
\* at which a store operation's error reaches its handler answers 500 after
\* retries + 1 invocations and waits of 1000 and 2000 ms.
C23_EveryOperationRetried ==
    [][(call' # call /\ call'.pc = "thrown")
       => /\ resp'.status = 500
          /\ call'.invoked = Retries + 1
          /\ call'.slept = <<1000, 2000>>]_vars

\* C29: handleDbError(operation, retries) always terminates after at most
\* retries + 1 invocations of operation (3 by default): it returns the result
\* of the first invocation that succeeds without invoking operation again,
\* waits 1000 * k ms after the k-th failed attempt, and after the final failed
\* attempt rethrows that attempt's error without waiting.
C29_HandleDbError ==
    LET n == Len(call.outcomes)
    IN  /\ call.invoked = n
        /\ call.invoked <= call.retries + 1
        /\ call.retries = Retries => call.invoked <= 3
        /\ \A k \in 1..(n - 1) : call.outcomes[k] # "ok"
        /\ call.slept = [k \in 1..Len(call.slept) |-> 1000 * k]
        /\ call.pc = "invoke" => Len(call.slept) = n
        /\ call.pc = "sleep" => (Len(call.slept) = n - 1 /\ call.outcomes[n] # "ok")
        /\ call.pc = "returned"
           => (n >= 1 /\ call.outcomes[n] = "ok" /\ Len(call.slept) = n - 1)
        /\ call.pc = "thrown"
           => /\ n = call.retries + 1
              /\ call.outcomes[n] # "ok"
              /\ call.error = call.outcomes[n]
              /\ Len(call.slept) = call.retries

\* a call with the default retries has failed three times with different
\* errors, waited 1000 ms and 2000 ms, and rethrown the last error
C29_Exhausted ==
    /\ call.pc = "thrown"
    /\ call.retries = Retries
    /\ call.invoked = 3
    /\ call.slept = <<1000, 2000>>
    /\ call.outcomes[1] # call.outcomes[3]
    /\ call.error = call.outcomes[3]

====
